---- MODULE Spec2Model ----
(***************************************************************************)
(* Model of tools/tag_release.py: the release tagger of hdl_modules.       *)
(*                                                                         *)
(* Strings are sequences of one-character strings, so that "v" + version,  *)
(* str.split("v") and packaging.version.parse are computed on characters.  *)
(* The repository is modelled by its working tree and index (restricted to *)
(* the release notes directory), its commit history (each commit with its  *)
(* tree), its tags, and one flag standing for every other tracked file.    *)
(***************************************************************************)
EXTENDS Integers, Sequences, FiniteSets, TLC

\* Bounds of the model.
MaxInitTags == 2    \* tags present in the repository before the first run
MaxCommits == 4     \* length of the commit history

---------------------------------------------------------------------------
\* Strings

DigitChars == {"0", "1", "2", "3", "4", "5", "6", "7", "8", "9"}

DigitVal(c) ==
    CASE c = "0" -> 0 [] c = "1" -> 1 [] c = "2" -> 2 [] c = "3" -> 3
      [] c = "4" -> 4 [] c = "5" -> 5 [] c = "6" -> 6 [] c = "7" -> 7
      [] c = "8" -> 8 [] c = "9" -> 9

\* Version identifiers the operator may pass on the command line:
\* "1.9.0", "1.09.0", "1.9.1", "1.10.0", "2.0.0".
Versions ==
    { <<"1", ".", "9", ".", "0">>,
      <<"1", ".", "0", "9", ".", "0">>,
      <<"1", ".", "9", ".", "1">>,
      <<"1", ".", "1", "0", ".", "0">>,
      <<"2", ".", "0", ".", "0">> }

\* A tag of the repository that no release made: "latest".
ForeignTag == <<"l", "a", "t", "e", "s", "t">>

\* str.split(sep) for a one-character separator.
RECURSIVE Split(_, _)
Split(s, sep) ==
    IF \A i \in 1..Len(s) : s[i] # sep
    THEN <<s>>
    ELSE LET i == CHOOSE k \in 1..Len(s) :
                    s[k] = sep /\ \A j \in 1..(k - 1) : s[j] # sep
         IN  <<SubSeq(s, 1, i - 1)>> \o Split(SubSeq(s, i + 1, Len(s)), sep)

\* int() of a string of decimal digits.
RECURSIVE int(_)
int(ds) ==
    IF Len(ds) = 0 THEN 0
    ELSE 10 * int(SubSeq(ds, 1, Len(ds) - 1)) + DigitVal(ds[Len(ds)])

\* A string packaging accepts as a release: digit groups separated by dots.
IsVersion(s) ==
    \A k \in 1..Len(Split(s, ".")) :
        LET part == Split(s, ".")[k]
        IN  Len(part) > 0 /\ \A i \in 1..Len(part) : part[i] \in DigitChars

\* The release tuple with its trailing zeros dropped, as packaging compares it.
RECURSIVE StripZeros(_)
StripZeros(t) ==
    IF Len(t) > 0 /\ t[Len(t)] = 0 THEN StripZeros(SubSeq(t, 1, Len(t) - 1)) ELSE t

\* packaging.version.parse: the comparison key of a version string.
parse(s) ==
    StripZeros([k \in 1..Len(Split(s, ".")) |-> int(Split(s, ".")[k])])

\* Lexicographic order of tuples (of numbers), as Python compares tuples.
RECURSIVE TupleLess(_, _)
TupleLess(a, b) ==
    IF Len(b) = 0 THEN FALSE
    ELSE IF Len(a) = 0 THEN TRUE
    ELSE IF a[1] # b[1] THEN a[1] < b[1]
    ELSE TupleLess(Tail(a), Tail(b))

\* Strings compared character by character, "." before the digits.
RECURSIVE StringLess(_, _)
StringLess(a, b) ==
    IF Len(b) = 0 THEN FALSE
    ELSE IF Len(a) = 0 THEN TRUE
    ELSE IF a[1] # b[1]
         THEN IF a[1] = "." THEN TRUE
              ELSE IF b[1] = "." THEN FALSE
              ELSE DigitVal(a[1]) < DigitVal(b[1])
    ELSE StringLess(Tail(a), Tail(b))

\* A plausible slip: the versions compared as strings, not parsed.
LexicalNotGreater(new_version, existing_version) ==
    new_version = existing_version \/ StringLess(new_version, existing_version)

\* A plausible slip: "<" written for "<=".
StrictlyLess(new_version, existing_version) ==
    TupleLess(parse(new_version), parse(existing_version))

\* parse(new_version) <= parse(existing_version)
NotGreater(new_version, existing_version) ==
    \/ parse(new_version) = parse(existing_version)
    \/ TupleLess(parse(new_version), parse(existing_version))

---------------------------------------------------------------------------
\* Files of the release notes directory

UNRELEASED_EMPTY == "Nothing here yet.\n"

\* Notes unreleased.rst may hold before the first run, and notes the
\* operator may write to it between runs.
Notes == {"Fixed a bug."}
LaterNotes == {"Added a feature."}
OldNotes == "Released earlier."

unreleased_rst == <<"unreleased", ".rst">>
VersionRst(version) == version \o <<".rst">>

\* "v" + new_version
GitTag(version) == <<"v">> \o version

\* Exit statuses: sys.exit(message) and uncaught exceptions end the process
\* with a non-zero status, falling off main() with status 0.
ExitOk == "0"
ExitDirty == "Must make release from clean repo"
ExitEmptyNotes == "The unreleased notes file should not be empty"
ExitTagExists == "Git release tag already exists"
ExitNotGreater == "New version is not greater than existing tag"
ExitNotesExist == "RuntimeError: Release notes already exist"
ExitCommitFailed == "Git commit failed"
ExitTagFailed == "Git tag failed"
ExitIndexError == "IndexError: list index out of range"
ExitInvalidVersion == "InvalidVersion"
ExitGitCommandError == "GitCommandError: tag already exists"
Proceed == "proceed"

Failures ==
    {ExitDirty, ExitEmptyNotes, ExitTagExists, ExitNotGreater, ExitNotesExist,
     ExitCommitFailed, ExitTagFailed, ExitIndexError, ExitInvalidVersion,
     ExitGitCommandError}

---------------------------------------------------------------------------
VARIABLES
    pc,               \* position of the process in main()
    exit,             \* exit status of the last finished run, "none" before
    release_version,  \* the command line argument
    git_tag,          \* the tag name verify_new_version_number returned
    worktree,         \* files of the release notes directory on disk
    index,            \* the same files as staged in the index
    commits,          \* commit history: records [message, tree]
    tags,             \* set of [name, commit]
    otherDirty,       \* some tracked file outside release_notes is modified
    initial,          \* history: the repository when the current run started
    previous          \* history: the run before this one, with no operator
                      \* action in between, or NoRun

vars == <<pc, exit, release_version, git_tag, worktree, index, commits, tags,
          otherDirty, initial, previous>>

NoRun == [version |-> <<>>, exit |-> "none"]

HeadTree == commits[Len(commits)].tree

\* repo.tags, as the names of the tags: lines 50-54 compare its elements
\* with a string and split them.
TagNames(ts) == {t.name : t \in ts}

Snapshot ==
    [worktree |-> worktree, index |-> index, commits |-> commits, tags |-> tags,
     otherDirty |-> otherDirty]

\* repo.is_dirty(): the index differs from HEAD, or a tracked file differs
\* from the index; untracked files do not count.
IsDirty(wt, idx, head, other) ==
    \/ other
    \/ idx # head
    \/ \E f \in DOMAIN idx : f \notin DOMAIN wt \/ wt[f] # idx[f]

\* All orders in which repo.tags may enumerate a set of tag names.
RECURSIVE Orders(_)
Orders(S) ==
    IF S = {} THEN {<<>>}
    ELSE UNION {{<<t>> \o o : o \in Orders(S \ {t})} : t \in S}

---------------------------------------------------------------------------
\* Initial repository

InitialTagNames == {GitTag(v) : v \in Versions} \cup {ForeignTag}

\* The notes directory of a repository in which `names` were released.
InitialTree(names, content) ==
    [f \in {unreleased_rst} \cup {VersionRst(v) : v \in {w \in Versions : GitTag(w) \in names}}
        |-> IF f = unreleased_rst THEN content ELSE OldNotes]

Init ==
    \E names \in SUBSET InitialTagNames :
    \E content \in {"", UNRELEASED_EMPTY} \cup Notes :
    \E dirty \in BOOLEAN :
        /\ Cardinality(names) <= MaxInitTags
        /\ pc = "idle"
        /\ exit = "none"
        /\ release_version = <<>>
        /\ git_tag = <<>>
        /\ worktree = InitialTree(names, content)
        /\ index = worktree
        /\ commits = <<[message |-> <<"Initial commit">>, tree |-> worktree]>>
        /\ tags = {[name |-> n, commit |-> 1] : n \in names}
        /\ otherDirty = dirty
        /\ initial = [worktree |-> worktree, index |-> worktree,
                      commits |-> commits, tags |-> tags, otherDirty |-> dirty]
        /\ previous = NoRun

---------------------------------------------------------------------------
\* The tool

Halt(message) == pc' = "halted" /\ exit' = message

\* main(), lines 26-32: the argument is parsed and the repository opened.
main(version) ==
    /\ pc \in {"idle", "done", "halted"}
    /\ Len(commits) < MaxCommits
    /\ pc' = "start"
    /\ exit' = "none"
    /\ release_version' = version
    /\ git_tag' = <<>>
    /\ initial' = Snapshot
    /\ previous' = IF pc = "idle" THEN NoRun
                   ELSE [version |-> release_version, exit |-> exit]
    /\ UNCHANGED <<worktree, index, commits, tags, otherDirty>>

\* A plausible slip: only the empty file is rejected, not the placeholder.
OnlyEmptyString(content) == content = ""

\* Line 45: the unreleased notes are empty or the placeholder.
UnreleasedIsEmpty(content) == content \in {"", UNRELEASED_EMPTY}

\* A plausible slip: the comparison with the new tag name left out.
CheckWithoutDuplicate(new_version, existing_tag) ==
    IF Len(Split(existing_tag, "v")) < 2 THEN ExitIndexError
    ELSE IF NotGreater(new_version, Split(existing_tag, "v")[2])
    THEN ExitNotGreater
    ELSE Proceed

\* The body of the loop over repo.tags for one tag: the exit message, or
\* Proceed when the loop goes on to the next tag.
CheckExistingTag(new_version, existing_tag) ==
    IF GitTag(new_version) = existing_tag THEN ExitTagExists
    ELSE IF Len(Split(existing_tag, "v")) < 2 THEN ExitIndexError
    ELSE LET existing_version == Split(existing_tag, "v")[2]
         IN  IF ~IsVersion(new_version) \/ ~IsVersion(existing_version)
             THEN ExitInvalidVersion
             ELSE IF NotGreater(new_version, existing_version)
             THEN ExitNotGreater
             ELSE Proceed

\* for existing_tag in repo.tags, the tags enumerated in `order`.
RECURSIVE ForExistingTags(_, _)
ForExistingTags(order, new_version) ==
    IF order = <<>> THEN Proceed
    ELSE LET r == CheckExistingTag(new_version, Head(order))
         IN  IF r # Proceed THEN r ELSE ForExistingTags(Tail(order), new_version)

\* A plausible slip: the check of repo.is_dirty() left out.
VerifyWithoutDirtyCheck(order, new_version) ==
    IF UnreleasedIsEmpty(worktree[unreleased_rst]) THEN ExitEmptyNotes
    ELSE ForExistingTags(order, new_version)

\* The result of verify_new_version_number: an exit message or Proceed.
VerifyResult(order, new_version) ==
    IF IsDirty(worktree, index, HeadTree, otherDirty) THEN ExitDirty
    ELSE IF UnreleasedIsEmpty(worktree[unreleased_rst]) THEN ExitEmptyNotes
    ELSE ForExistingTags(order, new_version)

verify_new_version_number ==
    /\ pc = "start"
    /\ \E order \in Orders(TagNames(tags)) :
         LET r == VerifyResult(order, release_version)
         IN  IF r = Proceed
             THEN /\ pc' = "preconditions-checked"
                  /\ git_tag' = GitTag(release_version)
                  /\ exit' = exit
             ELSE /\ Halt(r)
                  /\ git_tag' = git_tag
    /\ UNCHANGED <<release_version, worktree, index, commits, tags, otherDirty,
                   initial, previous>>

\* A plausible slip: the check of version_rst.exists() left out.
NeverExists(wt, version) == FALSE

\* version_rst.exists()
VersionRstExists(wt, version) == VersionRst(version) \in DOMAIN wt

\* A plausible slip: the placeholder written to dst, src left as it was.
CreateAtDestination(wt, src, dst) ==
    [f \in DOMAIN wt \cup {dst} |-> IF f = dst THEN UNRELEASED_EMPTY ELSE wt[f]]

\* shutil.move(src, dst) followed by create_file(src, UNRELEASED_EMPTY):
\* a file already at dst is replaced.
MoveAndCreate(wt, src, dst) ==
    [f \in DOMAIN wt \cup {dst} |->
        IF f = dst THEN wt[src]
        ELSE IF f = src THEN UNRELEASED_EMPTY
        ELSE wt[f]]

\* A plausible slip: the file is not staged.
NotStaged(idx, wt, path) == idx

\* repo.index.add(path): the file as it is on disk enters the index.
IndexAdd(idx, wt, path) ==
    [f \in DOMAIN idx \cup {path} |-> IF f = path THEN wt[path] ELSE idx[f]]

move_release_notes ==
    /\ pc = "preconditions-checked"
    /\ IF VersionRstExists(worktree, release_version)
       THEN /\ Halt(ExitNotesExist)
            /\ UNCHANGED <<worktree, index>>
       ELSE /\ worktree' = MoveAndCreate(worktree, unreleased_rst,
                                         VersionRst(release_version))
            /\ index' = IndexAdd(IndexAdd(index, worktree', unreleased_rst),
                                 worktree', VersionRst(release_version))
            /\ pc' = "notes-moved-and-staged"
            /\ exit' = exit
    /\ UNCHANGED <<release_version, git_tag, commits, tags, otherDirty,
                   initial, previous>>

\* A plausible slip: the commit is undone (or never made) on failure.
NoCommit(history, idx, commit_message) == history

\* repo.index.commit(commit_message): a new commit whose tree is the index.
IndexCommit(history, idx, commit_message) ==
    Append(history, [message |-> commit_message, tree |-> idx])

\* make_commit. The commit runs the repository's commit hooks, after which a
\* tracked file may (touched) or may not be modified.
make_commit ==
    /\ pc = "notes-moved-and-staged"
    /\ commits' = IndexCommit(commits, index,
                              <<"Release version ">> \o release_version)
    /\ \E touched \in BOOLEAN :
         /\ otherDirty' = (otherDirty \/ touched)
         /\ IF IsDirty(worktree, index, commits'[Len(commits')].tree, otherDirty')
            THEN Halt(ExitCommitFailed)
            ELSE pc' = "committed" /\ exit' = exit
    /\ UNCHANGED <<release_version, git_tag, worktree, index, tags,
                   initial, previous>>

\* repo.create_tag(git_tag): the tag at HEAD; `took` is whether the tag is in
\* the repository afterwards.
CreateTag(ts, name, head, took) ==
    IF took THEN ts \cup {[name |-> name, commit |-> head]} ELSE ts

\* A plausible slip: the check after repo.create_tag left out.
NeverMissing(ts, name) == FALSE

\* git_tag not in repo.tags
TagMissing(ts, name) == name \notin TagNames(ts)

\* commit_and_tag_release after make_commit, lines 81-83. git refuses to
\* create a tag whose name is taken, which GitPython raises as an exception.
create_tag ==
    /\ pc = "committed"
    /\ IF git_tag \in TagNames(tags)
       THEN Halt(ExitGitCommandError) /\ tags' = tags
       ELSE \E took \in BOOLEAN :
              /\ tags' = CreateTag(tags, git_tag, Len(commits), took)
              /\ IF TagMissing(tags', git_tag)
                 THEN Halt(ExitTagFailed)
                 ELSE pc' = "done" /\ exit' = ExitOk
    /\ UNCHANGED <<release_version, git_tag, worktree, index, commits,
                   otherDirty, initial, previous>>

\* Between runs the operator writes release notes and commits everything.
operator_commit(content) ==
    /\ pc \in {"idle", "done", "halted"}
    /\ Len(commits) < MaxCommits
    /\ pc' = "idle"
    /\ worktree' = [worktree EXCEPT ![unreleased_rst] = content]
    /\ index' = worktree'
    /\ commits' = IndexCommit(commits, index', <<"Update release notes">>)
    /\ otherDirty' = FALSE
    /\ UNCHANGED <<exit, release_version, git_tag, tags, initial, previous>>

Next ==
    \/ \E version \in Versions : main(version)
    \/ verify_new_version_number
    \/ move_release_notes
    \/ make_commit
    \/ create_tag
    \/ \E content \in LaterNotes : operator_commit(content)

Spec == Init /\ [][Next]_vars

TypeOK ==
    /\ pc \in {"idle", "start", "preconditions-checked", "notes-moved-and-staged",
               "committed", "done", "halted"}
    /\ exit \in {"none", ExitOk} \cup Failures
    /\ unreleased_rst \in DOMAIN worktree
    /\ Len(commits) <= MaxCommits

---------------------------------------------------------------------------
\* Vocabulary of the properties. The numeric triple of a version identifier
\* is tabulated here, independently of parse.

Triple(version) ==
    CASE version = <<"1", ".", "9", ".", "0">> -> <<1, 9, 0>>
      [] version = <<"1", ".", "0", "9", ".", "0">> -> <<1, 9, 0>>
      [] version = <<"1", ".", "9", ".", "1">> -> <<1, 9, 1>>
      [] version = <<"1", ".", "1", "0", ".", "0">> -> <<1, 10, 0>>
      [] version = <<"2", ".", "0", ".", "0">> -> <<2, 0, 0>>

TripleLt(a, b) ==
    \/ a[1] < b[1]
    \/ a[1] = b[1] /\ a[2] < b[2]
    \/ a[1] = b[1] /\ a[2] = b[2] /\ a[3] < b[3]

TripleLeq(a, b) == a = b \/ TripleLt(a, b)

IsVersionTag(name) == \E v \in Versions : name = <<"v">> \o v
TagTriple(name) == Triple(Tail(name))
AllVersionTags(ts) == \A t \in ts : IsVersionTag(t.name)

\* verify_new_version_number has returned or exited in the current run.
Verified == pc \notin {"idle", "start"}

StartedClean ==
    /\ ~initial.otherDirty
    /\ initial.index = initial.commits[Len(initial.commits)].tree
    /\ \A f \in DOMAIN initial.index :
          f \in DOMAIN initial.worktree /\ initial.worktree[f] = initial.index[f]

StartedWithNotes ==
    initial.worktree[unreleased_rst] \notin {"", "Nothing here yet.\n"}

RepoUnchanged ==
    /\ worktree = initial.worktree
    /\ index = initial.index
    /\ commits = initial.commits
    /\ tags = initial.tags

ReleaseMessage == <<"Release version ">> \o release_version

\* C1: a run that passes every check ends with <version>.rst holding what
\* unreleased.rst held at the start, unreleased.rst holding the placeholder,
\* exactly one commit added, with the release message, and exactly one tag
\* added, named v<version> and pointing at that commit.
C1_SuccessfulRelease ==
    pc = "done" =>
        /\ exit = "0"
        /\ DOMAIN worktree = DOMAIN initial.worktree \cup {release_version \o <<".rst">>}
        /\ worktree[release_version \o <<".rst">>] = initial.worktree[unreleased_rst]
        /\ worktree[unreleased_rst] = "Nothing here yet.\n"
        /\ \A f \in DOMAIN initial.worktree \ {unreleased_rst} :
              worktree[f] = initial.worktree[f]
        /\ Len(commits) = Len(initial.commits) + 1
        /\ SubSeq(commits, 1, Len(initial.commits)) = initial.commits
        /\ commits[Len(commits)].message = ReleaseMessage
        /\ commits[Len(commits)].tree = worktree
        /\ initial.tags \subseteq tags
        /\ tags \ initial.tags =
              {[name |-> <<"v">> \o release_version, commit |-> Len(commits)]}

C1_Witness ==
    /\ pc = "done"
    /\ Cardinality(initial.tags) = 2
    /\ initial.worktree[unreleased_rst] = "Fixed a bug."

\* The case of C2: version A is released in a clean repository with
\* non-empty notes in which a version B is tagged, A's triple <= B's.
C2_Case ==
    /\ Verified
    /\ StartedClean
    /\ StartedWithNotes
    /\ \E t \in initial.tags :
          IsVersionTag(t.name) /\ TripleLeq(Triple(release_version), TagTriple(t.name))

\* C2 as stated: releasing A after B was tagged, A <= B, fails with the
\* "version not greater" error and with no other (here even with every tag
\* of the repository of the form vMAJOR.MINOR.PATCH).
C2_Original ==
    (C2_Case /\ AllVersionTags(initial.tags)) =>
        (pc = "halted" /\ exit = ExitNotGreater)

\* C2 as amended: when every tag is of the form vMAJOR.MINOR.PATCH, the run
\* fails with the "version not greater" error or the "duplicate tag" error,
\* the latter only when the tag vA itself exists.
C2_NotGreaterOrDuplicate ==
    (C2_Case /\ AllVersionTags(initial.tags)) =>
        /\ pc = "halted"
        /\ exit \in {ExitNotGreater, ExitTagExists}
        /\ exit = ExitTagExists => <<"v">> \o release_version \in TagNames(initial.tags)

\* A is numerically equal to a tagged B, written differently (1.09.0, 1.9.0).
C2_Witness ==
    /\ C2_Case
    /\ AllVersionTags(initial.tags)
    /\ exit = ExitNotGreater
    /\ <<"v">> \o release_version \notin TagNames(initial.tags)
    /\ \E t \in initial.tags : TagTriple(t.name) = Triple(release_version)

\* The case of C3: the tag v<version> exists, the repository is clean and
\* the notes are not empty.
C3_Case ==
    /\ Verified
    /\ StartedClean
    /\ StartedWithNotes
    /\ <<"v">> \o release_version \in TagNames(initial.tags)

\* C3 as stated: the run fails with the "duplicate tag" error whatever the
\* other tags and the order of enumeration, the working tree unaltered (here
\* even with every tag of the repository of the form vMAJOR.MINOR.PATCH).
C3_Original ==
    (C3_Case /\ AllVersionTags(initial.tags)) =>
        (pc = "halted" /\ exit = ExitTagExists /\ worktree = initial.worktree)

\* C3 as amended: when every tag is of the form vMAJOR.MINOR.PATCH, the run
\* fails with the "duplicate tag" error, or with the "version not greater"
\* error when another tag of a version not less exists (and is enumerated
\* first); the working tree is not altered.
C3_DuplicateOrNotGreater ==
    (C3_Case /\ AllVersionTags(initial.tags)) =>
        /\ pc = "halted"
        /\ exit \in {ExitTagExists, ExitNotGreater}
        /\ exit = ExitNotGreater =>
              \E t \in initial.tags :
                  /\ t.name # <<"v">> \o release_version
                  /\ TripleLeq(Triple(release_version), TagTriple(t.name))
        /\ worktree = initial.worktree

C3_Witness ==
    /\ C3_Case
    /\ AllVersionTags(initial.tags)
    /\ pc = "halted"
    /\ exit = ExitTagExists
    /\ Cardinality(initial.tags) = 2

\* The case of C4: the run before this one released the same version
\* successfully and the operator did nothing in between.
C4_Case ==
    /\ Verified
    /\ previous.exit = "0"
    /\ previous.version = release_version

\* C4 as stated: the second run fails with "duplicate tag" or "release notes
\* already exist" and adds no commit and no tag.
C4_Original ==
    C4_Case =>
        /\ pc = "halted"
        /\ exit \in {ExitTagExists, ExitNotesExist}
        /\ commits = initial.commits
        /\ tags = initial.tags

\* C4 as amended: the second run fails with the "unreleased notes file
\* should not be empty" error and adds no commit and no tag.
C4_SecondRunEmptyNotes ==
    C4_Case =>
        /\ pc = "halted"
        /\ exit = ExitEmptyNotes
        /\ RepoUnchanged

C4_Witness == C4_Case /\ pc = "halted"

\* A precondition of the release is violated when the current run starts.
PreconditionViolated ==
    \/ ~StartedClean
    \/ ~StartedWithNotes
    \/ <<"v">> \o release_version \in TagNames(initial.tags)
    \/ \E t \in initial.tags :
          IsVersionTag(t.name) /\ TripleLeq(Triple(release_version), TagTriple(t.name))
    \/ release_version \o <<".rst">> \in DOMAIN initial.worktree

\* C5: a run started with a precondition violated never gets past the
\* checks, ends with a failure, and neither moves or writes a file, nor
\* stages anything, nor creates a commit or a tag.
C5_FailsBeforeMutation ==
    (Verified /\ PreconditionViolated) =>
        /\ pc \in {"preconditions-checked", "halted"}
        /\ pc = "preconditions-checked" =>
              release_version \o <<".rst">> \in DOMAIN initial.worktree
        /\ pc = "halted" =>
              exit \in {ExitDirty, ExitEmptyNotes, ExitTagExists, ExitNotGreater,
                        ExitNotesExist, ExitIndexError}
        /\ RepoUnchanged

\* The versioned notes file exists although the version was never tagged.
C5_Witness ==
    /\ pc = "halted"
    /\ exit = ExitNotesExist
    /\ PreconditionViolated

\* C6: verify_new_version_number lets the run proceed only if the version is
\* numerically greater than the version of every existing tag; so, from a
\* repository whose tags are all vMAJOR.MINOR.PATCH, every tag created later
\* has a version greater than every tag that existed before it.
C6_StrictlyGreater ==
    AllVersionTags(initial.tags) =>
        /\ pc \in {"preconditions-checked", "notes-moved-and-staged", "committed", "done"} =>
              \A t \in initial.tags : TripleLt(TagTriple(t.name), Triple(release_version))
        /\ \A t1 \in tags : \A t2 \in tags :
              t1.commit < t2.commit => TripleLt(TagTriple(t1.name), TagTriple(t2.name))

\* 1.10.0 released after 1.9.0.
C6_Witness ==
    /\ pc = "done"
    /\ release_version = <<"1", ".", "1", "0", ".", "0">>
    /\ <<"v", "1", ".", "9", ".", "0">> \in TagNames(initial.tags)

\* C7: the steps of a run happen in the order checked, moved and staged,
\* committed, tagged, each entered only from the one before; the files are
\* touched only in the move, the history only in the commit, the tags only
\* in the tagging; a halted run has a non-zero status and does nothing
\* more; status 0 only with the tag in the repository.
C7_StepOrder ==
    [][ /\ (pc' # pc /\ pc' = "preconditions-checked") => pc = "start"
        /\ (pc' # pc /\ pc' = "notes-moved-and-staged") => pc = "preconditions-checked"
        /\ (pc' # pc /\ pc' = "committed") =>
              /\ pc = "notes-moved-and-staged"
              /\ Len(commits') = Len(commits) + 1
              /\ ~otherDirty' /\ index' = commits'[Len(commits')].tree
        /\ (pc' # pc /\ pc' = "done") =>
              /\ pc = "committed"
              /\ \E t \in tags' : t.name = git_tag /\ t.commit = Len(commits)
        /\ (pc' # "idle" /\ (worktree' # worktree \/ index' # index)) =>
              pc = "preconditions-checked"
        /\ (pc' # "idle" /\ commits' # commits) => pc = "notes-moved-and-staged"
        /\ tags' # tags => pc = "committed"
        /\ (pc' # pc /\ pc' = "halted") => exit' \in Failures
        /\ pc = "halted" => pc' \in {"halted", "start", "idle"}
        /\ exit' = "0" => (pc' \in {"done", "idle"}
                           /\ <<"v">> \o release_version' \in TagNames(tags'))
      ]_vars

C7_Witness == pc = "done" /\ exit = "0" /\ git_tag \in TagNames(tags)

\* C8: no step removes, renames or re-points a tag, no two tags share a
\* name, and no step removes or changes a versioned notes file.
C8_Immutable ==
    [][ /\ tags \subseteq tags'
        /\ \A t1 \in tags' : \A t2 \in tags' : t1.name = t2.name => t1 = t2
        /\ \A f \in DOMAIN worktree \ {unreleased_rst} :
              f \in DOMAIN worktree' /\ worktree'[f] = worktree[f]
        /\ \A f \in DOMAIN index \ {unreleased_rst} :
              f \in DOMAIN index' /\ index'[f] = index[f]
      ]_vars

\* A second release was made, with the files and the tag of the first kept.
C8_Witness ==
    /\ pc = "done"
    /\ Cardinality(tags) >= 2
    /\ \E t \in tags : t.commit > 1 /\ t.commit < Len(commits)

\* C9: after move_release_notes, <version>.rst absent before, the notes are
\* in <version>.rst, unreleased.rst is the placeholder, both are staged as
\* they are on disk, and the history and the tags are as they were.
C9_MoveStagesOnly ==
    pc = "notes-moved-and-staged" =>
        /\ release_version \o <<".rst">> \notin DOMAIN initial.worktree
        /\ DOMAIN worktree = DOMAIN initial.worktree \cup {release_version \o <<".rst">>}
        /\ worktree[release_version \o <<".rst">>] = initial.worktree[unreleased_rst]
        /\ worktree[unreleased_rst] = "Nothing here yet.\n"
        /\ \A f \in DOMAIN initial.worktree \ {unreleased_rst} :
              worktree[f] = initial.worktree[f]
        /\ index = worktree
        /\ commits = initial.commits
        /\ tags = initial.tags

C9_Witness ==
    /\ pc = "notes-moved-and-staged"
    /\ initial.tags # {}
    /\ index # initial.index

\* The release commit of the current run is in the history and the notes
\* files are as move_release_notes left them.
CommitAndFilesRemain ==
    /\ Len(commits) = Len(initial.commits) + 1
    /\ commits[Len(commits)].message = ReleaseMessage
    /\ worktree[release_version \o <<".rst">>] = initial.worktree[unreleased_rst]
    /\ worktree[unreleased_rst] = "Nothing here yet.\n"

\* C10: no rollback. A run that ends with "Git commit failed" has created
\* no tag and leaves the commit and the notes files; a run that ends with
\* "Git tag failed" leaves the commit; and a tag is created only in a clean
\* repository.
C10_NoRollback ==
    /\ (pc = "halted" /\ exit = ExitCommitFailed) =>
          (tags = initial.tags /\ CommitAndFilesRemain)
    /\ (pc = "halted" /\ exit = ExitTagFailed) =>
          (tags = initial.tags /\ CommitAndFilesRemain)
    /\ pc \in {"committed", "done"} =>
          (~otherDirty /\ index = HeadTree /\ worktree = index)

C10_Witness == pc = "halted" /\ exit = ExitCommitFailed /\ otherDirty

C10_WitnessTagFailed == pc = "halted" /\ exit = ExitTagFailed

====
